---- MODULE Spec2Model ----
(***************************************************************************)
(* Model of nsjail's command-line parsing (cmdline.c): cmdlineParse, the   *)
(* option loop around getopt_long, and its helpers cmdlineIsANumber,       *)
(* cmdlineParseRLimit, cmdlineSplitStrByColon, cmdlineParseUid and         *)
(* cmdlineParseGid.                                                        *)
(*                                                                         *)
(* C strings are sequences of one-character strings: "a:b" is              *)
(* <<"a", ":", "b">>, "" is <<>>.  One step of the model is one iteration  *)
(* of the getopt_long loop (one option), or the whole code after the loop. *)
(*                                                                         *)
(* TLC's integers are 32 bits wide, so the widths of unsigned long long    *)
(* and of uid_t are scaled down (WordBits, UidBits); all arithmetic of the *)
(* code is done modulo these widths exactly as the code does it modulo     *)
(* 2^64 and 2^32.                                                          *)
(***************************************************************************)
EXTENDS Integers, Sequences, FiniteSets, TLC

(* Bounds of the model. *)
\* Options on one command line.
MaxArgs == 3
\* --rlimit_* options on one command line.
MaxRLimits == 1
\* The longest string cmdlineSplitStrByColon is applied to on its own.
MaxTokenLen == 4
\* Modelled width of unsigned long long, size_t and __rlim64_t (64 in the build).
WordBits == 29
\* Modelled width of uid_t and gid_t (32 in the build).
UidBits == 16

ULLONG_MAX == 2^WordBits - 1
\* (1024 * 1024), the multiplier of the MB-denominated limits.
MB == 1048576
\* .tmpfs_size = 4 * (1024 * 1024)
DefaultTmpfsSize == 4194304
\* errno.h
ERANGE == 34

(***************************************************************************)
(* Characters and C library functions.                                     *)
(***************************************************************************)
UpperCase == <<"A","B","C","D","E","F","G","H","I","J","K","L","M",
               "N","O","P","Q","R","S","T","U","V","W","X","Y","Z">>
LowerCase == <<"a","b","c","d","e","f","g","h","i","j","k","l","m",
               "n","o","p","q","r","s","t","u","v","w","x","y","z">>
Digits == <<"0","1","2","3","4","5","6","7","8","9">>

isdigit(ch) == \E i \in 1..10 : Digits[i] = ch

tolower(ch) ==
    IF \E i \in 1..26 : UpperCase[i] = ch
    THEN LowerCase[CHOOSE i \in 1..26 : UpperCase[i] = ch]
    ELSE ch

\* strcasecmp(a, b) == 0
strcasecmpEq(a, b) ==
    /\ Len(a) = Len(b)
    /\ \A i \in 1..Len(a) : tolower(a[i]) = tolower(b[i])

\* The value of a character as a digit of strtoull (36: not a digit).
DigitOf(ch) ==
    IF isdigit(ch) THEN (CHOOSE i \in 1..10 : Digits[i] = ch) - 1
    ELSE IF \E i \in 1..26 : LowerCase[i] = tolower(ch)
         THEN 9 + (CHOOSE i \in 1..26 : LowerCase[i] = tolower(ch))
         ELSE 36

\* strtoull(s, NULL, 0): the base is taken from the prefix ("0x": 16, "0": 8,
\* otherwise 10), the longest prefix of digits of that base is converted, and a
\* value beyond ULLONG_MAX gives ULLONG_MAX with errno = ERANGE.  The tokens of
\* the model hold no white space and no sign.
StrtoBase(s) ==
    IF Len(s) >= 3 /\ s[1] = "0" /\ tolower(s[2]) = "x" /\ DigitOf(s[3]) < 16
    THEN 16
    ELSE IF Len(s) >= 1 /\ s[1] = "0" THEN 8 ELSE 10

RECURSIVE StrtoAccum(_, _, _, _)
StrtoAccum(s, i, base, acc) ==
    IF i > Len(s) \/ DigitOf(s[i]) >= base THEN acc
    ELSE IF acc.erange \/ acc.val > (ULLONG_MAX - DigitOf(s[i])) \div base
         THEN StrtoAccum(s, i + 1, base, [val |-> ULLONG_MAX, erange |-> TRUE])
         ELSE StrtoAccum(s, i + 1, base,
                         [val |-> acc.val * base + DigitOf(s[i]), erange |-> FALSE])

strtoull(s) ==
    StrtoAccum(s, IF StrtoBase(s) = 16 THEN 3 ELSE 1, StrtoBase(s),
               [val |-> 0, erange |-> FALSE])

\* (v * mul) modulo 2^WordBits, the unsigned multiplication of the code; mul is
\* 1 or MB, a power of two below 2^WordBits, so the product is formed on the
\* low bits of v and never leaves TLC's integer range.
MulWrap(v, mul) == (v % ((ULLONG_MAX + 1) \div mul)) * mul

\* The cast (uid_t) / (gid_t) of an unsigned long long.
CastUid(v) == v % (2^UidBits)

\* "%zu": the decimal digits of n.
RECURSIVE FormatZu(_)
FormatZu(n) ==
    IF n < 10 THEN <<Digits[n + 1]>>
    ELSE FormatZu(n \div 10) \o <<Digits[(n % 10) + 1]>>

\* snprintf(cmdlineTmpfsSz, sizeof(cmdlineTmpfsSz), "size=%zu", n)
TmpfsSzString(n) == <<"s","i","z","e","=">> \o FormatZu(n)

(***************************************************************************)
(* cmdlineIsANumber (with i fixed at 0 and s advancing, the loop looks at  *)
(* each character once): every character is a decimal digit or 'x'.       *)
(***************************************************************************)
cmdlineIsANumber(s) == \A i \in 1..Len(s) : isdigit(s[i]) \/ s[i] = "x"

(***************************************************************************)
(* cmdlineSplitStrByColon: head is what spec reads as afterwards, tail is  *)
(* the returned string, aliased says that the returned pointer is spec.    *)
(***************************************************************************)
HasColon(s) == \E i \in 1..Len(s) : s[i] = ":"
FirstColon(s) == CHOOSE i \in 1..Len(s) : s[i] = ":" /\ \A j \in 1..(i - 1) : s[j] # ":"

cmdlineSplitStrByColon(s) ==
    IF HasColon(s)
    THEN [head |-> SubSeq(s, 1, FirstColon(s) - 1),
          tail |-> SubSeq(s, FirstColon(s) + 1, Len(s)),
          aliased |-> FALSE]
    ELSE [head |-> s, tail |-> s, aliased |-> TRUE]

(***************************************************************************)
(* cmdlineSplitStrByColon on the memory it works on.  A char array is a    *)
(* sequence of characters ending with NUL, a pointer into it is an index,  *)
(* and the string at a pointer runs up to the next NUL.                    *)
(***************************************************************************)
NUL == "NUL"
CharArray(s) == s \o <<NUL>>

\* The string the pointer p into the array b points to.
StringAt(b, p) ==
    LET end == CHOOSE i \in p..Len(b) : b[i] = NUL /\ \A j \in p..(i - 1) : b[j] # NUL
    IN SubSeq(b, p, end - 1)

\* while (*dest != ':' && *dest != '\0') dest++, from dest = p.
ScanDest(b, p) ==
    CHOOSE i \in p..Len(b) :
        /\ b[i] \in {":", NUL}
        /\ \A j \in p..(i - 1) : b[j] \notin {":", NUL}

\* SplitInPlace going on to the last colon of the string.
SplitInPlace_LastColon(b, p) ==
    LET colons == { i \in p..(Len(StringAt(b, p)) + p - 1) : b[i] = ":" }
        last == CHOOSE i \in colons : \A j \in colons : j <= i
    IN IF colons # {}
       THEN [mem |-> [b EXCEPT ![last] = NUL], ret |-> last + 1]
       ELSE [mem |-> b, ret |-> p]

\* The call cmdlineSplitStrByColon(spec) with spec = p: the array afterwards
\* and the pointer returned.
SplitInPlace(b, p) ==
    LET d == ScanDest(b, p)
    IN IF b[d] = ":"
       THEN [mem |-> [b EXCEPT ![d] = NUL], ret |-> d + 1]
       ELSE [mem |-> b, ret |-> p]

(***************************************************************************)
(* Strings of the model.                                                   *)
(***************************************************************************)
NULL == <<"NULL">>
EmptyStr == <<>>
S_root == <<"/">>
S_proc == <<"/","p","r","o","c">>
S_tmpfs == <<"t","m","p","f","s">>
S_procfs == <<"p","r","o","c">>
S_max == <<"m","a","x">>
S_def == <<"d","e","f">>
\* The address of the static buffer cmdlineTmpfsSz, as stored in p->options.
TmpfsSzPtr == <<"&cmdlineTmpfsSz">>

(* Option arguments the model draws from. *)
ChrootArgs == { <<"/","s","r","v">>, <<"/","a","l","t">> }
TmpfsSizeArgs == { <<"8">>, <<"9","9","9","9","9","9","9","9","9","9">> }
TmpfsMountArgs == { <<"/","t">>, <<"/","v">> }
BindRoArgs == { <<"/","l">>, <<"/","l",":","/","m">> }
BindArgs == { <<"/","h",":","/">> }
EnvArgs == { <<"A","=","1">>, <<"B">> }
PassFdArgs == { <<"3">>, <<"4">> }
UidMapArgs == { <<"0",":","1","0","0","0",":","1">>, <<"5">> }
GidMapArgs == { <<"0",":","7",":","2">>, <<"1",":","9">> }
UserArgs == { <<"a","l","i","c","e">>, <<"1","0","0","0">>,
              <<"a","l","i","c","e",":","1","0","0","0">>,
              <<"1","0","0","0",":","a","l","i","c","e">>,
              <<"7",":","7">>, <<"6","5","5","3","7">>,
              <<"b","o","b">>, <<"x">>, <<"7",":","q">> }
GroupArgs == { <<"a","l","i","c","e">>, <<"1","0","0","0">>,
               <<"1","0","0","0",":","7">>, <<"b","o","b">>, <<"1","2","x">> }
PortArgs == { <<"3","1","3","3","7">> }
ModeArgs == { <<"l">>, <<"o">>, <<"e">>, <<"r">>, <<"z">>, <<"l","x">> }
RLimitArgs == { S_max, <<"M","a","X">>, S_def, <<"D","E","F">>,
                <<"3">>, <<"0","x","1","0">>, <<"0","x","1","f">>,
                <<"4","0","9","6">>,
                <<"9","9","9","9","9","9","9","9","9","9">>,
                FormatZu(ULLONG_MAX), <<"q","q">>, <<"1","2","x">> }
CmdVectors == { <<>>, << <<"/","b","i","n","/","e","c","h","o">>, <<"h","i">> >> }

(***************************************************************************)
(* The environment of the process: its ids, the name databases behind      *)
(* getpwnam and getgrnam, and the limits prlimit64 reports.                *)
(***************************************************************************)
Resources == {"RLIMIT_AS", "RLIMIT_CORE", "RLIMIT_CPU", "RLIMIT_FSIZE",
              "RLIMIT_NOFILE", "RLIMIT_NPROC", "RLIMIT_STACK"}
S_alice == <<"a","l","i","c","e">>
S_1000 == <<"1","0","0","0">>
S_7 == <<"7">>

Envs ==
    { [uid |-> 1000, gid |-> 100,
       pw |-> (S_alice :> 1001),
       gr |-> (S_alice :> 1002),
       rlim |-> [r \in Resources |->
                   CASE r = "RLIMIT_AS" -> [cur |-> ULLONG_MAX, max |-> ULLONG_MAX]
                     [] r = "RLIMIT_CORE" -> [cur |-> 0, max |-> ULLONG_MAX]
                     [] r = "RLIMIT_CPU" -> [cur |-> 60, max |-> 120]
                     [] r = "RLIMIT_FSIZE" -> [cur |-> 2048, max |-> ULLONG_MAX]
                     [] r = "RLIMIT_NOFILE" -> [cur |-> 1024, max |-> 4096]
                     [] r = "RLIMIT_NPROC" -> [cur |-> 500, max |-> 600]
                     [] r = "RLIMIT_STACK" -> [cur |-> 8388608, max |-> ULLONG_MAX]]],
      [uid |-> 0, gid |-> 0,
       pw |-> (S_alice :> 1001) @@ (S_1000 :> 42) @@ (S_7 :> 8),
       gr |-> (S_alice :> 1002) @@ (S_1000 :> 43),
       rlim |-> [r \in Resources |->
                   CASE r = "RLIMIT_AS" -> [cur |-> 1000, max |-> 2000]
                     [] r = "RLIMIT_CORE" -> [cur |-> 1, max |-> 2]
                     [] r = "RLIMIT_CPU" -> [cur |-> 3, max |-> ULLONG_MAX]
                     [] r = "RLIMIT_FSIZE" -> [cur |-> 4, max |-> 5]
                     [] r = "RLIMIT_NOFILE" -> [cur |-> 6, max |-> 7]
                     [] r = "RLIMIT_NPROC" -> [cur |-> 8, max |-> 9]
                     [] r = "RLIMIT_STACK" -> [cur |-> 10, max |-> 11]]] }

(***************************************************************************)
(* cmdlineParseRLimit(res, optarg, mul), called with errno = e: the value  *)
(* returned and errno afterwards, or fatal when LOG_F / PLOG_F is reached. *)
(* prlimit64 on the process itself is taken to succeed.                    *)
(***************************************************************************)
cmdlineParseRLimit(cur, optarg, mul, e) ==
    IF strcasecmpEq(optarg, S_max)
    THEN [fatal |-> FALSE, val |-> cur.max, errno |-> e]
    ELSE IF strcasecmpEq(optarg, S_def)
    THEN [fatal |-> FALSE, val |-> cur.cur, errno |-> e]
    ELSE IF ~cmdlineIsANumber(optarg)
    THEN [fatal |-> TRUE, val |-> 0, errno |-> e]
    ELSE LET n == strtoull(optarg)
             e2 == IF n.erange THEN ERANGE ELSE e
             val == MulWrap(n.val, mul)
         IN IF val = ULLONG_MAX /\ e2 # 0
            THEN [fatal |-> TRUE, val |-> val, errno |-> e2]
            ELSE [fatal |-> FALSE, val |-> val, errno |-> e2]

(***************************************************************************)
(* State.                                                                  *)
(*   env             the environment of the process (fixed during a run)   *)
(*   args            the options getopt_long has returned so far, in order *)
(*   nsjconf         struct nsjconf_t, the specification being assembled   *)
(*   user, group     the locals holding the last --user / --group argument *)
(*   cmdlineTmpfsSz  the static buffer holding the tmpfs options string    *)
(*   errno           errno                                                 *)
(*   pc              "loop" in the option loop, "return_true" and          *)
(*                   "return_false" after cmdlineParse returned, "exit"    *)
(*                   after the process exited                              *)
(*   status          the exit status (-1 while the process runs)           *)
(*   usage           whether cmdlineHelp printed the usage text            *)
(***************************************************************************)
VARIABLES env, args, nsjconf, user, group, cmdlineTmpfsSz, errno, pc, status, usage,
          token, spec, dest

vars == <<env, args, nsjconf, user, group, cmdlineTmpfsSz, errno, pc, status, usage,
          token, spec, dest>>

\* cmdlineSplitStrByColon taken on its own: token is the string it is called
\* with, spec the char array holding it, dest the pointer returned (0 before
\* the call).
splitVars == <<token, spec, dest>>

\* The three descriptors inserted at the head of open_fds one after another.
InitOpenFds == <<2, 1, 0>>

\* The compound literal assigned to *nsjconf, the TAILQ_INITs and the standard
\* descriptors, for the fields the options of the model touch.
InitConf(e) ==
    [ mode |-> "MODE_STANDALONE_ONCE",
      chroot |-> NULL,
      port |-> 0,
      is_root_rw |-> FALSE,
      mount_proc |-> TRUE,
      tmpfs_size |-> DefaultTmpfsSize,
      rl_as |-> 512 * MB,
      rl_core |-> 0,
      rl_cpu |-> 600,
      rl_fsize |-> 1 * MB,
      rl_nofile |-> 32,
      rl_nproc |-> cmdlineParseRLimit(e.rlim["RLIMIT_NPROC"], S_def, 1, 0).val,
      rl_stack |-> cmdlineParseRLimit(e.rlim["RLIMIT_STACK"], S_def, 1, 0).val,
      inside_uid |-> e.uid,
      inside_gid |-> e.gid,
      outside_uid |-> e.uid,
      outside_gid |-> e.gid,
      envs |-> <<>>,
      mountpts |-> <<>>,
      open_fds |-> InitOpenFds,
      uid_mappings |-> <<>>,
      gid_mappings |-> <<>>,
      argv |-> NULL ]

Init ==
    /\ env \in Envs
    /\ args = <<>>
    /\ nsjconf = InitConf(env)
    /\ user = NULL
    /\ group = NULL
    /\ cmdlineTmpfsSz = TmpfsSzString(DefaultTmpfsSize)
    /\ errno = 0
    /\ pc = "loop"
    /\ status = -1
    /\ usage = FALSE
    /\ token = EmptyStr
    /\ spec = CharArray(token)
    /\ dest = 0

(***************************************************************************)
(* Ways out of cmdlineParse.                                               *)
(***************************************************************************)
\* exit(0) of cmdlineUsage
UsageExitStatus == 0
\* The exit status of LOG_F and PLOG_F (log.h).
FatalExitStatus == 255

\* cmdlineUsage: cmdlineHelp, then exit(0); the return false that follows a call
\* of it in cmdlineParse is never reached.
cmdlineUsage ==
    /\ usage' = TRUE
    /\ pc' = "exit"
    /\ status' = UsageExitStatus

\* LOG_F, PLOG_F: the diagnostic is logged and the process ends.
LogFatal ==
    /\ pc' = "exit"
    /\ status' = FatalExitStatus
    /\ UNCHANGED usage

Continue == UNCHANGED <<pc, status, usage>>

\* getopt_long returns one more option.
GetOpt(opt, optarg) ==
    /\ pc = "loop"
    /\ Len(args) < MaxArgs
    /\ args' = Append(args, [opt |-> opt, arg |-> optarg])
    /\ UNCHANGED <<env, splitVars>>

(***************************************************************************)
(* The cases of the switch.                                                *)
(***************************************************************************)
\* case 'c'
Opt_chroot ==
    \E optarg \in ChrootArgs :
        /\ GetOpt("c", optarg)
        /\ nsjconf' = [nsjconf EXCEPT !.chroot = optarg]
        /\ Continue
        /\ UNCHANGED <<user, group, cmdlineTmpfsSz, errno>>

\* PortCase without the change of mode.
PortCase_KeepsMode(conf, optarg) ==
    [conf EXCEPT !.port = strtoull(optarg).val]

\* case 'p'
PortCase(conf, optarg) ==
    [conf EXCEPT !.port = strtoull(optarg).val, !.mode = "MODE_LISTEN_TCP"]

Opt_port ==
    \E optarg \in PortArgs :
        /\ GetOpt("p", optarg)
        /\ nsjconf' = PortCase(nsjconf, optarg)
        /\ errno' = IF strtoull(optarg).erange THEN ERANGE ELSE errno
        /\ Continue
        /\ UNCHANGED <<user, group, cmdlineTmpfsSz>>

\* case 'u'
Opt_user ==
    \E optarg \in UserArgs :
        /\ GetOpt("u", optarg)
        /\ user' = optarg
        /\ Continue
        /\ UNCHANGED <<nsjconf, group, cmdlineTmpfsSz, errno>>

\* case 'g'
Opt_group ==
    \E optarg \in GroupArgs :
        /\ GetOpt("g", optarg)
        /\ group' = optarg
        /\ Continue
        /\ UNCHANGED <<nsjconf, user, cmdlineTmpfsSz, errno>>

\* case 'h', and case '?', which getopt_long returns for an option it does not
\* recognize.
Opt_help ==
    /\ GetOpt("h", EmptyStr)
    /\ cmdlineUsage
    /\ UNCHANGED <<nsjconf, user, group, cmdlineTmpfsSz, errno>>

Opt_unrecognized ==
    /\ GetOpt("?", EmptyStr)
    /\ cmdlineUsage
    /\ UNCHANGED <<nsjconf, user, group, cmdlineTmpfsSz, errno>>

(***************************************************************************)
(* TAILQ lists are sequences, first element first.                         *)
(***************************************************************************)
TAILQ_INSERT_HEAD(q, e) == <<e>> \o q
TAILQ_INSERT_TAIL(q, e) == Append(q, e)

\* strtol(s, NULL, 0) of an unsigned token: as strtoull, saturating at LONG_MAX.
LONG_MAX == 2^(WordBits - 1) - 1
strtol(s) == IF strtoull(s).val > LONG_MAX \/ strtoull(s).erange
             THEN [val |-> LONG_MAX, erange |-> TRUE]
             ELSE strtoull(s)

\* The cast (int) of a long; int has the width of uid_t.
CastInt(v) ==
    LET m == v % (2^UidBits)
    IN IF m >= 2^(UidBits - 1) THEN m - 2^UidBits ELSE m

\* case 0x0201 .. 0x0207: field = cmdlineParseRLimit(res, optarg, mul)
RLimitCase(opt, field, res, mul) ==
    \E optarg \in RLimitArgs :
        LET r == cmdlineParseRLimit(env.rlim[res], optarg, mul, errno)
        IN /\ GetOpt(opt, optarg)
           /\ Cardinality({i \in 1..Len(args) : args[i].opt \in
                  {"rlimit_as", "rlimit_core", "rlimit_cpu", "rlimit_fsize",
                   "rlimit_nofile", "rlimit_nproc", "rlimit_stack"}}) < MaxRLimits
           /\ errno' = r.errno
           /\ IF r.fatal
              THEN LogFatal /\ UNCHANGED nsjconf
              ELSE Continue /\ nsjconf' = [nsjconf EXCEPT ![field] = r.val]
           /\ UNCHANGED <<user, group, cmdlineTmpfsSz>>

Opt_rlimit_as == RLimitCase("rlimit_as", "rl_as", "RLIMIT_AS", MB)
Opt_rlimit_core == RLimitCase("rlimit_core", "rl_core", "RLIMIT_CORE", MB)
Opt_rlimit_cpu == RLimitCase("rlimit_cpu", "rl_cpu", "RLIMIT_CPU", 1)
Opt_rlimit_fsize == RLimitCase("rlimit_fsize", "rl_fsize", "RLIMIT_FSIZE", MB)
Opt_rlimit_nofile == RLimitCase("rlimit_nofile", "rl_nofile", "RLIMIT_NOFILE", 1)
Opt_rlimit_nproc == RLimitCase("rlimit_nproc", "rl_nproc", "RLIMIT_NPROC", 1)
Opt_rlimit_stack == RLimitCase("rlimit_stack", "rl_stack", "RLIMIT_STACK", MB)

\* case 0x0505: the descriptor goes to the head of open_fds.
PassFdCase(conf, optarg) ==
    [conf EXCEPT !.open_fds = TAILQ_INSERT_HEAD(@, CastInt(strtol(optarg).val))]

Opt_pass_fd ==
    \E optarg \in PassFdArgs :
        /\ GetOpt("pass_fd", optarg)
        /\ nsjconf' = PassFdCase(nsjconf, optarg)
        /\ errno' = IF strtol(optarg).erange THEN ERANGE ELSE errno
        /\ Continue
        /\ UNCHANGED <<user, group, cmdlineTmpfsSz>>

\* case 0x0601
Opt_rw ==
    /\ GetOpt("rw", EmptyStr)
    /\ nsjconf' = [nsjconf EXCEPT !.is_root_rw = TRUE]
    /\ Continue
    /\ UNCHANGED <<user, group, cmdlineTmpfsSz, errno>>

\* TmpfsSizeCase without the snprintf into cmdlineTmpfsSz.
TmpfsSizeCase_NoSnprintf(optarg) ==
    [size |-> strtoull(optarg).val,
     buf |-> TmpfsSzString(DefaultTmpfsSize)]

\* case 0x0602: the size, and the string written into cmdlineTmpfsSz.
TmpfsSizeCase(optarg) ==
    [size |-> strtoull(optarg).val,
     buf |-> TmpfsSzString(strtoull(optarg).val)]

Opt_tmpfs_size ==
    \E optarg \in TmpfsSizeArgs :
        /\ GetOpt("tmpfs_size", optarg)
        /\ nsjconf' = [nsjconf EXCEPT !.tmpfs_size = TmpfsSizeCase(optarg).size]
        /\ cmdlineTmpfsSz' = TmpfsSizeCase(optarg).buf
        /\ errno' = IF strtoull(optarg).erange THEN ERANGE ELSE errno
        /\ Continue
        /\ UNCHANGED <<user, group>>

\* case 0x0603
Opt_disable_proc ==
    /\ GetOpt("disable_proc", EmptyStr)
    /\ nsjconf' = [nsjconf EXCEPT !.mount_proc = FALSE]
    /\ Continue
    /\ UNCHANGED <<user, group, cmdlineTmpfsSz, errno>>

\* case 'E'
EnvCase(conf, optarg) ==
    [conf EXCEPT !.envs = TAILQ_INSERT_TAIL(@, optarg)]

Opt_env ==
    \E optarg \in EnvArgs :
        /\ GetOpt("E", optarg)
        /\ nsjconf' = EnvCase(nsjconf, optarg)
        /\ Continue
        /\ UNCHANGED <<user, group, cmdlineTmpfsSz, errno>>

\* case 'U', case 'G': optarg is split twice in place, so inside_id reads as the
\* head of the first split and outside_id as the head of the second.
MappingOf(optarg) ==
    LET first == cmdlineSplitStrByColon(optarg)
        second == cmdlineSplitStrByColon(first.tail)
    IN [inside_id |-> first.head, outside_id |-> second.head, count |-> second.tail]

MappingCase(conf, c, optarg) ==
    IF c = "U"
    THEN [conf EXCEPT !.uid_mappings = TAILQ_INSERT_TAIL(@, MappingOf(optarg))]
    ELSE [conf EXCEPT !.gid_mappings = TAILQ_INSERT_TAIL(@, MappingOf(optarg))]

Opt_uid_mapping ==
    \E optarg \in UidMapArgs :
        /\ GetOpt("U", optarg)
        /\ nsjconf' = MappingCase(nsjconf, "U", optarg)
        /\ Continue
        /\ UNCHANGED <<user, group, cmdlineTmpfsSz, errno>>

Opt_gid_mapping ==
    \E optarg \in GidMapArgs :
        /\ GetOpt("G", optarg)
        /\ nsjconf' = MappingCase(nsjconf, "G", optarg)
        /\ Continue
        /\ UNCHANGED <<user, group, cmdlineTmpfsSz, errno>>

\* case 'R', case 'B', case 'T': the entry appended to mountpts.
BindRoEntry(optarg) ==
    [src |-> cmdlineSplitStrByColon(optarg).head,
     dst |-> cmdlineSplitStrByColon(optarg).tail,
     flags |-> {"MS_BIND", "MS_REC", "MS_RDONLY"},
     options |-> EmptyStr,
     fs_type |-> EmptyStr]

BindEntry(optarg) ==
    [src |-> cmdlineSplitStrByColon(optarg).head,
     dst |-> cmdlineSplitStrByColon(optarg).tail,
     flags |-> {"MS_BIND", "MS_REC"},
     options |-> EmptyStr,
     fs_type |-> EmptyStr]

TmpfsEntry(optarg) ==
    [src |-> NULL,
     dst |-> optarg,
     flags |-> {},
     options |-> TmpfsSzPtr,
     fs_type |-> S_tmpfs]

\* MountCase with the entry put at the head of mountpts.
MountCase_AtHead(conf, entry) ==
    [conf EXCEPT !.mountpts = TAILQ_INSERT_HEAD(@, entry)]

MountCase(conf, entry) ==
    [conf EXCEPT !.mountpts = TAILQ_INSERT_TAIL(@, entry)]

Opt_bindmount_ro ==
    \E optarg \in BindRoArgs :
        /\ GetOpt("R", optarg)
        /\ nsjconf' = MountCase(nsjconf, BindRoEntry(optarg))
        /\ Continue
        /\ UNCHANGED <<user, group, cmdlineTmpfsSz, errno>>

Opt_bindmount ==
    \E optarg \in BindArgs :
        /\ GetOpt("B", optarg)
        /\ nsjconf' = MountCase(nsjconf, BindEntry(optarg))
        /\ Continue
        /\ UNCHANGED <<user, group, cmdlineTmpfsSz, errno>>

Opt_tmpfsmount ==
    \E optarg \in TmpfsMountArgs :
        /\ GetOpt("T", optarg)
        /\ nsjconf' = MountCase(nsjconf, TmpfsEntry(optarg))
        /\ Continue
        /\ UNCHANGED <<user, group, cmdlineTmpfsSz, errno>>

\* case 'M': the mode of optarg[0], "none" for the default branch.
ModeOfLetter(ch) ==
    CASE ch = "l" -> "MODE_LISTEN_TCP"
      [] ch = "o" -> "MODE_STANDALONE_ONCE"
      [] ch = "e" -> "MODE_STANDALONE_EXECVE"
      [] ch = "r" -> "MODE_STANDALONE_RERUN"
      [] OTHER -> "none"

FirstChar(s) == IF Len(s) = 0 THEN "\\0" ELSE s[1]

Opt_mode ==
    \E optarg \in ModeArgs :
        /\ GetOpt("M", optarg)
        /\ IF ModeOfLetter(FirstChar(optarg)) = "none"
           THEN cmdlineUsage /\ UNCHANGED nsjconf
           ELSE /\ Continue
                /\ nsjconf' = [nsjconf EXCEPT !.mode = ModeOfLetter(FirstChar(optarg))]
        /\ UNCHANGED <<user, group, cmdlineTmpfsSz, errno>>

(***************************************************************************)
(* After the loop.                                                         *)
(***************************************************************************)
ProcEntry ==
    [src |-> NULL, dst |-> S_proc, flags |-> {}, options |-> EmptyStr,
     fs_type |-> S_procfs]

\* RootEntry where the bind form is never read-only.
RootEntry_BindNeverReadOnly(conf) ==
    IF conf.chroot # NULL
    THEN [src |-> conf.chroot, dst |-> S_root,
          flags |-> {"MS_BIND", "MS_REC"},
          options |-> EmptyStr, fs_type |-> EmptyStr]
    ELSE [src |-> NULL, dst |-> S_root,
          flags |-> IF conf.is_root_rw = FALSE THEN {"MS_RDONLY"} ELSE {},
          options |-> EmptyStr, fs_type |-> S_tmpfs]

RootEntry(conf) ==
    IF conf.chroot # NULL
    THEN [src |-> conf.chroot, dst |-> S_root,
          flags |-> {"MS_BIND", "MS_REC"}
                    \cup (IF conf.is_root_rw = FALSE THEN {"MS_RDONLY"} ELSE {}),
          options |-> EmptyStr, fs_type |-> EmptyStr]
    ELSE [src |-> NULL, dst |-> S_root,
          flags |-> IF conf.is_root_rw = FALSE THEN {"MS_RDONLY"} ELSE {},
          options |-> EmptyStr, fs_type |-> S_tmpfs]

\* ImplicitMounts with the two insertions in the other order.
ImplicitMounts_RootThenProc(conf) ==
    LET withRoot == TAILQ_INSERT_HEAD(conf.mountpts, RootEntry(conf))
    IN [conf EXCEPT !.mountpts = IF conf.mount_proc = TRUE
                                 THEN TAILQ_INSERT_HEAD(withRoot, ProcEntry)
                                 ELSE withRoot]

\* The /proc entry goes to the head of mountpts if mount_proc, then the root
\* entry goes to the head.
ImplicitMounts(conf) ==
    LET withProc == IF conf.mount_proc = TRUE
                    THEN TAILQ_INSERT_HEAD(conf.mountpts, ProcEntry)
                    ELSE conf.mountpts
    IN [conf EXCEPT !.mountpts = TAILQ_INSERT_HEAD(withProc, RootEntry(conf))]

\* The results logInitLogFile (log.c) can give.
logInitLogFile == BOOLEAN

\* cmdlineParseUid that also stores the inside id as outside id when no second
\* part was given.
cmdlineParseUid_OutsideFollows(conf, str, pw) ==
    IF str = NULL THEN [ok |-> TRUE, conf |-> conf]
    ELSE LET sp == cmdlineSplitStrByColon(str)
             first == sp.head
             second == IF sp.aliased THEN sp.head ELSE sp.tail
         IN IF first \notin DOMAIN pw /\ ~cmdlineIsANumber(first)
            THEN [ok |-> FALSE, conf |-> conf]
            ELSE LET c1 == [conf EXCEPT !.inside_uid =
                                IF first \in DOMAIN pw THEN pw[first]
                                ELSE CastUid(strtoull(first).val)]
                 IN IF second \in DOMAIN pw
                    THEN [ok |-> TRUE, conf |-> [c1 EXCEPT !.outside_uid = pw[second]]]
                    ELSE IF cmdlineIsANumber(second)
                    THEN [ok |-> TRUE,
                          conf |-> [c1 EXCEPT !.outside_uid = CastUid(strtoull(second).val)]]
                    ELSE [ok |-> FALSE, conf |-> c1]

\* cmdlineParseUid that tries the numeric form before getpwnam.
cmdlineParseUid_NumericFirst(conf, str, pw) ==
    IF str = NULL THEN [ok |-> TRUE, conf |-> conf]
    ELSE LET sp == cmdlineSplitStrByColon(str)
             first == sp.head
             second == sp.tail
         IN IF first \notin DOMAIN pw /\ ~cmdlineIsANumber(first)
            THEN [ok |-> FALSE, conf |-> conf]
            ELSE LET c1 == [conf EXCEPT !.inside_uid =
                                IF cmdlineIsANumber(first)
                                THEN CastUid(strtoull(first).val)
                                ELSE pw[first]]
                 IN IF sp.aliased THEN [ok |-> TRUE, conf |-> c1]
                    ELSE IF cmdlineIsANumber(second)
                    THEN [ok |-> TRUE,
                          conf |-> [c1 EXCEPT !.outside_uid = CastUid(strtoull(second).val)]]
                    ELSE IF second \in DOMAIN pw
                    THEN [ok |-> TRUE, conf |-> [c1 EXCEPT !.outside_uid = pw[second]]]
                    ELSE [ok |-> FALSE, conf |-> c1]

\* cmdlineParseUid with getpwnam answering from pw: the value returned and
\* nsjconf afterwards.
cmdlineParseUid(conf, str, pw) ==
    IF str = NULL THEN [ok |-> TRUE, conf |-> conf]
    ELSE LET sp == cmdlineSplitStrByColon(str)
             first == sp.head
             second == sp.tail
         IN IF first \notin DOMAIN pw /\ ~cmdlineIsANumber(first)
            THEN [ok |-> FALSE, conf |-> conf]
            ELSE LET c1 == [conf EXCEPT !.inside_uid =
                                IF first \in DOMAIN pw THEN pw[first]
                                ELSE CastUid(strtoull(first).val)]
                 IN IF sp.aliased THEN [ok |-> TRUE, conf |-> c1]
                    ELSE IF second \in DOMAIN pw
                    THEN [ok |-> TRUE, conf |-> [c1 EXCEPT !.outside_uid = pw[second]]]
                    ELSE IF cmdlineIsANumber(second)
                    THEN [ok |-> TRUE,
                          conf |-> [c1 EXCEPT !.outside_uid = CastUid(strtoull(second).val)]]
                    ELSE [ok |-> FALSE, conf |-> c1]

\* cmdlineParseGid with getgrnam answering from gr.
cmdlineParseGid(conf, str, gr) ==
    IF str = NULL THEN [ok |-> TRUE, conf |-> conf]
    ELSE LET sp == cmdlineSplitStrByColon(str)
             first == sp.head
             second == sp.tail
         IN IF first \notin DOMAIN gr /\ ~cmdlineIsANumber(first)
            THEN [ok |-> FALSE, conf |-> conf]
            ELSE LET c1 == [conf EXCEPT !.inside_gid =
                                IF first \in DOMAIN gr THEN gr[first]
                                ELSE CastUid(strtoull(first).val)]
                 IN IF sp.aliased THEN [ok |-> TRUE, conf |-> c1]
                    ELSE IF second \in DOMAIN gr
                    THEN [ok |-> TRUE, conf |-> [c1 EXCEPT !.outside_gid = gr[second]]]
                    ELSE IF cmdlineIsANumber(second)
                    THEN [ok |-> TRUE,
                          conf |-> [c1 EXCEPT !.outside_gid = CastUid(strtoull(second).val)]]
                    ELSE [ok |-> FALSE, conf |-> c1]

\* getopt_long returns -1: the implicit mounts, the log file, the identities and
\* the command vector argv[optind..].  errno is not read any more.
Finish ==
    /\ pc = "loop"
    /\ \E logOk \in logInitLogFile, cmd \in CmdVectors :
        LET mounted == ImplicitMounts(nsjconf)
            u == cmdlineParseUid(mounted, user, env.pw)
            g == cmdlineParseGid(u.conf, group, env.gr)
        IN IF logOk = FALSE
           THEN /\ nsjconf' = mounted
                /\ pc' = "return_false"
                /\ UNCHANGED <<status, usage>>
           ELSE IF u.ok = FALSE
           THEN /\ nsjconf' = u.conf
                /\ pc' = "return_false"
                /\ UNCHANGED <<status, usage>>
           ELSE IF g.ok = FALSE
           THEN /\ nsjconf' = g.conf
                /\ pc' = "return_false"
                /\ UNCHANGED <<status, usage>>
           ELSE /\ nsjconf' = [g.conf EXCEPT !.argv = cmd]
                /\ IF cmd = <<>>
                   THEN cmdlineUsage
                   ELSE pc' = "return_true" /\ UNCHANGED <<status, usage>>
    /\ UNCHANGED <<env, args, user, group, cmdlineTmpfsSz, errno, splitVars>>

(***************************************************************************)
(* Specifications.  Spec lets every option of the model appear; the others *)
(* are Spec restricted to the options that reach the fields they are about.*)
(***************************************************************************)
MountOpts ==
    \/ Opt_chroot \/ Opt_rw \/ Opt_disable_proc \/ Opt_tmpfs_size
    \/ Opt_bindmount_ro \/ Opt_bindmount \/ Opt_tmpfsmount

TableOpts ==
    \/ Opt_env \/ Opt_pass_fd \/ Opt_uid_mapping \/ Opt_gid_mapping

IdentityOpts == Opt_user \/ Opt_group

ModeOpts == Opt_mode \/ Opt_port

UsageOpts == Opt_help \/ Opt_unrecognized

RLimitOpts ==
    \/ Opt_rlimit_as \/ Opt_rlimit_core \/ Opt_rlimit_cpu \/ Opt_rlimit_fsize
    \/ Opt_rlimit_nofile \/ Opt_rlimit_nproc \/ Opt_rlimit_stack

Next ==
    \/ MountOpts \/ TableOpts \/ IdentityOpts \/ ModeOpts \/ UsageOpts
    \/ RLimitOpts \/ Finish

Spec == Init /\ [][Next]_vars

\* The mount table and the other repeatable tables.
NextTables == MountOpts \/ TableOpts \/ Finish
SpecTables == Init /\ [][NextTables]_vars

\* --user and --group.
NextIdentity == IdentityOpts \/ Finish
SpecIdentity == Init /\ [][NextIdentity]_vars

\* --mode, --port, --help and unrecognized options.
NextMode == ModeOpts \/ UsageOpts \/ Finish
SpecMode == Init /\ [][NextMode]_vars

\* The ways cmdlineParse fails.
NextFail ==
    \/ IdentityOpts \/ Opt_mode \/ UsageOpts \/ Opt_rlimit_cpu \/ Finish
SpecFail == Init /\ [][NextFail]_vars

\* --rlimit_*, with --tmpfs_size as the option that can leave errno set.
NextRLimit == RLimitOpts \/ Opt_tmpfs_size \/ Finish
SpecRLimit == Init /\ [][NextRLimit]_vars

\* cmdlineSplitStrByColon called once with each string of at most MaxTokenLen
\* characters over SplitAlphabet, outside the option loop.
SplitAlphabet == {"a", "b", ":"}
Tokens == UNION { [1..n -> SplitAlphabet] : n \in 0..MaxTokenLen }

InitSplit ==
    /\ env \in Envs
    /\ args = <<>>
    /\ nsjconf = InitConf(env)
    /\ user = NULL
    /\ group = NULL
    /\ cmdlineTmpfsSz = TmpfsSzString(DefaultTmpfsSize)
    /\ errno = 0
    /\ pc = "loop"
    /\ status = -1
    /\ usage = FALSE
    /\ token \in Tokens
    /\ spec = CharArray(token)
    /\ dest = 0

SplitCall ==
    /\ dest = 0
    /\ spec' = SplitInPlace(spec, 1).mem
    /\ dest' = SplitInPlace(spec, 1).ret
    /\ UNCHANGED <<env, args, nsjconf, user, group, cmdlineTmpfsSz, errno, pc,
                   status, usage, token>>

NextSplit == SplitCall
SpecSplit == InitSplit /\ [][NextSplit]_vars

(***************************************************************************)
(* Reference notions the properties are stated with.                       *)
(***************************************************************************)
Success == pc = "return_true"

\* The arguments of the options in opts, in the order of the command line.
ArgsOf(opts) == SelectSeq(args, LAMBDA a : a.opt \in opts)
Last(q) == q[Len(q)]

\* A decimal numeral without leading zero, of at most nine digits.
IsDecimal(s) ==
    /\ Len(s) \in 1..9
    /\ \A i \in 1..Len(s) : isdigit(s[i])
    /\ (Len(s) > 1 => s[1] # "0")

RECURSIVE DecValue(_)
DecValue(s) ==
    IF Len(s) = 0 THEN 0
    ELSE 10 * DecValue(SubSeq(s, 1, Len(s) - 1))
         + (CHOOSE d \in 0..9 : Digits[d + 1] = s[Len(s)])

MountOptNames == {"R", "B", "T"}

(***************************************************************************)
(* C1: whenever cmdlineParse succeeds, the first entry of the mount table  *)
(* is the root entry: its destination is "/" and its source is the chroot  *)
(* directory (none without --chroot), and the table holds it, the /proc    *)
(* entry if /proc is mounted, and one entry per -R/-B/-T option.           *)
(***************************************************************************)
C1_RootEntryFirst ==
    Success =>
        /\ Len(nsjconf.mountpts) =
             1 + (IF nsjconf.mount_proc THEN 1 ELSE 0) + Len(ArgsOf(MountOptNames))
        /\ nsjconf.mountpts[1].dst = S_root
        /\ nsjconf.mountpts[1].src = nsjconf.chroot
        /\ nsjconf.mountpts[1].src =
             (IF ArgsOf({"c"}) = <<>> THEN NULL ELSE Last(ArgsOf({"c"})).arg)

\* A successful run with /proc mounted and three explicit mounts, one of them
\* onto "/" as well.
C1_Witness ==
    /\ Success
    /\ nsjconf.mount_proc
    /\ Len(ArgsOf(MountOptNames)) = 3
    /\ \E i \in 3..Len(nsjconf.mountpts) : nsjconf.mountpts[i].dst = S_root

(***************************************************************************)
(* C2 and C9: the identities.                                              *)
(***************************************************************************)
NoColon(str) == str # NULL /\ ~HasColon(str)

\* The id a decimal numeral names, when it fits uid_t.
FitsUid(s) == IsDecimal(s) /\ DecValue(s) < 2^UidBits

\* C2, as claimed: when the --user (--group) argument has no colon, the outside
\* uid (gid) of the finished specification equals the inside uid (gid).
C2_OutsideEqualsInside ==
    Success =>
        /\ (NoColon(user) => nsjconf.outside_uid = nsjconf.inside_uid)
        /\ (NoColon(group) => nsjconf.outside_gid = nsjconf.inside_gid)

\* C2, amended: when the --user (--group) argument has no colon, the inside uid
\* (gid) of the finished specification is the id the argument resolves to (the
\* id of the database entry of that name, else the value of a decimal numeral),
\* and the outside uid (gid) is the uid (gid) of the invoking process.
C2_OutsideStaysInvoker ==
    Success =>
        /\ (NoColon(user) =>
              /\ nsjconf.outside_uid = env.uid
              /\ (user \in DOMAIN env.pw => nsjconf.inside_uid = env.pw[user])
              /\ (user \notin DOMAIN env.pw /\ FitsUid(user)
                    => nsjconf.inside_uid = DecValue(user)))
        /\ (NoColon(group) =>
              /\ nsjconf.outside_gid = env.gid
              /\ (group \in DOMAIN env.gr => nsjconf.inside_gid = env.gr[group])
              /\ (group \notin DOMAIN env.gr /\ FitsUid(group)
                    => nsjconf.inside_gid = DecValue(group)))

\* A successful run whose --user argument has no colon and resolves to an id
\* that is not the invoking uid.
C2_Witness ==
    /\ Success
    /\ NoColon(user)
    /\ nsjconf.inside_uid # env.uid
    /\ nsjconf.outside_uid = env.uid

\* The side of an identity argument: "in" the part before the colon, "out" the
\* part after it (none without a colon).
Side(str, which) ==
    IF str = NULL THEN NULL
    ELSE IF which = "in" THEN cmdlineSplitStrByColon(str).head
    ELSE IF HasColon(str) THEN cmdlineSplitStrByColon(str).tail
    ELSE NULL

\* C9, as claimed: a side of --user or --group that is a decimal numeral
\* resolves to the numeral's value, whatever the name database holds.
C9_NumericIgnoresDatabase ==
    Success =>
        /\ (FitsUid(Side(user, "in")) => nsjconf.inside_uid = DecValue(Side(user, "in")))
        /\ (FitsUid(Side(user, "out")) => nsjconf.outside_uid = DecValue(Side(user, "out")))
        /\ (FitsUid(Side(group, "in")) => nsjconf.inside_gid = DecValue(Side(group, "in")))
        /\ (FitsUid(Side(group, "out")) => nsjconf.outside_gid = DecValue(Side(group, "out")))

\* The id a decimal numeral resolves to with database db, amended: the entry of
\* that name wins, the numeral's value is used only without such an entry.
NumeralId(db, s) == IF s \in DOMAIN db THEN db[s] ELSE DecValue(s)

\* C9, amended: a side of --user or --group that is a decimal numeral fitting
\* uid_t resolves to the numeral's value for every name database that holds no
\* entry of that name; with such an entry, the entry's id is used.
C9_NumericUnlessNamed ==
    Success =>
        /\ (FitsUid(Side(user, "in"))
              => nsjconf.inside_uid = NumeralId(env.pw, Side(user, "in")))
        /\ (FitsUid(Side(user, "out"))
              => nsjconf.outside_uid = NumeralId(env.pw, Side(user, "out")))
        /\ (FitsUid(Side(group, "in"))
              => nsjconf.inside_gid = NumeralId(env.gr, Side(group, "in")))
        /\ (FitsUid(Side(group, "out"))
              => nsjconf.outside_gid = NumeralId(env.gr, Side(group, "out")))

\* A successful run that resolved --user 1000 to 1000, the database holding no
\* user of that name.
C9_Witness ==
    /\ Success
    /\ user = S_1000
    /\ S_1000 \notin DOMAIN env.pw
    /\ nsjconf.inside_uid = 1000

(***************************************************************************)
(* C7: the options of the tmpfs entries.                                   *)
(***************************************************************************)
\* The string p->options points to.
OptionsOf(entry) ==
    IF entry.options = TmpfsSzPtr THEN cmdlineTmpfsSz ELSE entry.options

S_size == <<"s","i","z","e","=">>

\* "size=<last --tmpfs_size value>", "size=4194304" without --tmpfs_size: the
\* digits of a decimal argument in range as they were given, else the digits of
\* the size the argument was converted to.
FinalTmpfsOptions ==
    IF ArgsOf({"tmpfs_size"}) = <<>>
    THEN S_size \o <<"4","1","9","4","3","0","4">>
    ELSE LET given == Last(ArgsOf({"tmpfs_size"})).arg
         IN IF IsDecimal(given) /\ DecValue(given) <= ULLONG_MAX
            THEN S_size \o given
            ELSE S_size \o FormatZu(nsjconf.tmpfs_size)

\* C7, as claimed: after assembly the options of every tmpfs mount entry, the
\* --tmpfsmount entries and the implicit root tmpfs entry alike, are the final
\* tmpfs size string.
C7_EveryTmpfsHasFinalSize ==
    Success =>
        \A i \in 1..Len(nsjconf.mountpts) :
            nsjconf.mountpts[i].fs_type = S_tmpfs
                => OptionsOf(nsjconf.mountpts[i]) = FinalTmpfsOptions

\* C7, amended: after assembly the options of every --tmpfsmount entry,
\* including those added before the last --tmpfs_size, are the final tmpfs size
\* string; the options of the implicit root tmpfs entry (the first entry, when
\* no chroot is given) are empty.
C7_TmpfsMountsHaveFinalSize ==
    Success =>
        /\ \A i \in 2..Len(nsjconf.mountpts) :
              nsjconf.mountpts[i].fs_type = S_tmpfs
                  => OptionsOf(nsjconf.mountpts[i]) = FinalTmpfsOptions
        /\ Len(ArgsOf({"T"})) =
              Cardinality({i \in 2..Len(nsjconf.mountpts) :
                              nsjconf.mountpts[i].fs_type = S_tmpfs})
        /\ (nsjconf.chroot = NULL =>
              /\ nsjconf.mountpts[1].fs_type = S_tmpfs
              /\ OptionsOf(nsjconf.mountpts[1]) = EmptyStr)

\* A successful run without chroot where a --tmpfsmount came before the last
\* --tmpfs_size.
C7_Witness ==
    /\ Success
    /\ nsjconf.chroot = NULL
    /\ \E i, j \in 1..Len(args) :
          /\ i < j
          /\ args[i].opt = "T"
          /\ args[j].opt = "tmpfs_size"
          /\ args[j].arg = <<"8">>

(***************************************************************************)
(* C8: the execution mode.                                                 *)
(***************************************************************************)
Modes == {"MODE_LISTEN_TCP", "MODE_STANDALONE_ONCE", "MODE_STANDALONE_EXECVE",
          "MODE_STANDALONE_RERUN"}

\* The mode the last --port or --mode of the command line asks for.
ModeAskedFor ==
    IF ArgsOf({"p", "M"}) = <<>> THEN "MODE_STANDALONE_ONCE"
    ELSE LET a == Last(ArgsOf({"p", "M"}))
         IN IF a.opt = "p" THEN "MODE_LISTEN_TCP"
            ELSE IF a.arg[1] = "l" THEN "MODE_LISTEN_TCP"
            ELSE IF a.arg[1] = "o" THEN "MODE_STANDALONE_ONCE"
            ELSE IF a.arg[1] = "e" THEN "MODE_STANDALONE_EXECVE"
            ELSE IF a.arg[1] = "r" THEN "MODE_STANDALONE_RERUN"
            ELSE "unknown"

\* C8: in every assembled specification the mode is one of the four modes and
\* is the one the last --port or --mode in encounter order asks for: listen for
\* --port, the mode of the letter for --mode, standalone-once with neither.
C8_LastModeOrPortWins ==
    Success =>
        /\ nsjconf.mode \in Modes
        /\ nsjconf.mode = ModeAskedFor

\* A successful run with a --mode before a --port, and one more --mode after
\* them.
C8_Witness ==
    /\ Success
    /\ Len(args) = 3
    /\ args[1].opt = "M"
    /\ args[2].opt = "p"
    /\ args[3] = [opt |-> "M", arg |-> <<"e">>]
    /\ nsjconf.mode = "MODE_STANDALONE_EXECVE"

(***************************************************************************)
(* C10: the order of the repeatable tables.                                *)
(***************************************************************************)
RECURSIVE Reverse(_)
Reverse(q) == IF q = <<>> THEN <<>> ELSE Append(Reverse(Tail(q)), Head(q))

\* The tables as the options give them, in encounter order.
EnvsGiven == [i \in 1..Len(ArgsOf({"E"})) |-> ArgsOf({"E"})[i].arg]
FdsGiven == [i \in 1..Len(ArgsOf({"pass_fd"})) |-> DecValue(ArgsOf({"pass_fd"})[i].arg)]
UidMappingsGiven == [i \in 1..Len(ArgsOf({"U"})) |-> MappingOf(ArgsOf({"U"})[i].arg)]
GidMappingsGiven == [i \in 1..Len(ArgsOf({"G"})) |-> MappingOf(ArgsOf({"G"})[i].arg)]
MountsGiven ==
    [i \in 1..Len(ArgsOf(MountOptNames)) |->
        LET a == ArgsOf(MountOptNames)[i]
        IN IF a.opt = "R" THEN BindRoEntry(a.arg)
           ELSE IF a.opt = "B" THEN BindEntry(a.arg)
           ELSE TmpfsEntry(a.arg)]

\* The implicit mount entries: root, then /proc if it is mounted.
ImplicitCount == 1 + (IF nsjconf.mount_proc THEN 1 ELSE 0)

OtherTablesInOrder ==
    /\ nsjconf.envs = EnvsGiven
    /\ nsjconf.uid_mappings = UidMappingsGiven
    /\ nsjconf.gid_mappings = GidMappingsGiven
    /\ Len(nsjconf.mountpts) = ImplicitCount + Len(MountsGiven)
    /\ SubSeq(nsjconf.mountpts, ImplicitCount + 1, Len(nsjconf.mountpts)) = MountsGiven
    /\ \A i \in 1..ImplicitCount : nsjconf.mountpts[i].dst \in {S_root, S_proc}

\* The descriptors added by --pass_fd: open_fds without the standard streams.
FdsAdded == SelectSeq(nsjconf.open_fds, LAMBDA fd : fd \notin {0, 1, 2})

\* C10, as claimed: environment entries, descriptors to keep, explicit mount
\* entries and uid and gid mappings are listed in the encounter order of their
\* options, the implicit mount entries ahead of the explicit ones.
C10_AllTablesInOrder ==
    Success => OtherTablesInOrder /\ FdsAdded = FdsGiven

\* C10, amended: environment entries, explicit mount entries and uid and gid
\* mappings are listed in the encounter order of their options, the implicit
\* mount entries ahead of the explicit ones; the descriptors to keep are listed
\* in reverse encounter order, ahead of the standard streams 2, 1, 0.
C10_TablesInOrderFdsReversed ==
    Success =>
        /\ OtherTablesInOrder
        /\ nsjconf.open_fds = Reverse(FdsGiven) \o <<2, 1, 0>>

\* A successful run with two different --pass_fd and a bind mount.
C10_Witness ==
    /\ Success
    /\ Len(FdsGiven) = 2
    /\ FdsGiven[1] # FdsGiven[2]
    /\ Len(MountsGiven) = 1

(***************************************************************************)
(* C3 to C6: failures.                                                     *)
(***************************************************************************)
RLimitOptNames == {"rlimit_as", "rlimit_core", "rlimit_cpu", "rlimit_fsize",
                   "rlimit_nofile", "rlimit_nproc", "rlimit_stack"}

\* A 0x-prefixed hexadecimal numeral of at most six digits.
IsHex(s) ==
    /\ Len(s) \in 3..8
    /\ s[1] = "0" /\ s[2] = "x"
    /\ \A i \in 3..Len(s) :
          s[i] \in {"0","1","2","3","4","5","6","7","8","9",
                    "a","b","c","d","e","f","A","B","C","D","E","F"}

HexDigit(ch) ==
    CASE ch \in {"a", "A"} -> 10 [] ch \in {"b", "B"} -> 11 [] ch \in {"c", "C"} -> 12
      [] ch \in {"d", "D"} -> 13 [] ch \in {"e", "E"} -> 14 [] ch \in {"f", "F"} -> 15
      [] OTHER -> CHOOSE d \in 0..9 : Digits[d + 1] = ch

RECURSIVE HexValue(_)
HexValue(s) ==
    IF Len(s) = 2 THEN 0
    ELSE 16 * HexValue(SubSeq(s, 1, Len(s) - 1)) + HexDigit(s[Len(s)])

\* Numeric as the specification has it: decimal digits only, or 0x and
\* hexadecimal digits only.
IsNumeral(s) == IsDecimal(s) \/ IsHex(s)
NumeralValue(s) == IF IsHex(s) THEN HexValue(s) ELSE DecValue(s)

IsMaxOrDef(s) ==
    \/ Len(s) = 3 /\ s[1] \in {"m", "M"} /\ s[2] \in {"a", "A"} /\ s[3] \in {"x", "X"}
    \/ Len(s) = 3 /\ s[1] \in {"d", "D"} /\ s[2] \in {"e", "E"} /\ s[3] \in {"f", "F"}

SideResolvable(db, str, which) ==
    Side(str, which) # NULL =>
        Side(str, which) \in DOMAIN db \/ IsNumeral(Side(str, which))

\* C3: cmdlineParse returns true only if every side of the --user and --group
\* arguments is a name of the database or numeric, every --mode letter is one
\* of l, o, e, r, every --rlimit_* argument is numeric or max or def, and the
\* command vector is not empty.
C3_TrueOnlyWithoutFailure ==
    Success =>
        /\ \A which \in {"in", "out"} :
              /\ SideResolvable(env.pw, user, which)
              /\ SideResolvable(env.gr, group, which)
        /\ \A i \in 1..Len(args) :
              /\ (args[i].opt = "M" => FirstChar(args[i].arg) \in {"l", "o", "e", "r"})
              /\ (args[i].opt \in RLimitOptNames =>
                    IsNumeral(args[i].arg) \/ IsMaxOrDef(args[i].arg))
        /\ nsjconf.argv # <<>>

\* The run ended in a usage error: an unrecognized option, a --mode letter
\* outside l, o, e, r, or no command vector.
UsageError ==
    \/ /\ args # <<>>
       /\ \/ Last(args).opt = "?"
          \/ /\ Last(args).opt = "M"
             /\ FirstChar(Last(args).arg) \notin {"l", "o", "e", "r"}
    \/ nsjconf.argv = <<>>

\* C4: a usage error ends the process with the usage printed and a status other
\* than 0, and the process exits with status 0 only on a help request.
C4_UsageErrorExitsNonZero ==
    pc = "exit" =>
        /\ (UsageError => usage /\ status # 0)
        /\ (status = 0 => args # <<>> /\ Last(args).opt = "h")

\* The resource, the field and the multiplier of each --rlimit_* option.
LimitOf(opt) ==
    CASE opt = "rlimit_as" -> [res |-> "RLIMIT_AS", mul |-> 1048576, val |-> nsjconf.rl_as]
      [] opt = "rlimit_core" -> [res |-> "RLIMIT_CORE", mul |-> 1048576, val |-> nsjconf.rl_core]
      [] opt = "rlimit_cpu" -> [res |-> "RLIMIT_CPU", mul |-> 1, val |-> nsjconf.rl_cpu]
      [] opt = "rlimit_fsize" -> [res |-> "RLIMIT_FSIZE", mul |-> 1048576, val |-> nsjconf.rl_fsize]
      [] opt = "rlimit_nofile" -> [res |-> "RLIMIT_NOFILE", mul |-> 1, val |-> nsjconf.rl_nofile]
      [] opt = "rlimit_nproc" -> [res |-> "RLIMIT_NPROC", mul |-> 1, val |-> nsjconf.rl_nproc]
      [] opt = "rlimit_stack" -> [res |-> "RLIMIT_STACK", mul |-> 1048576, val |-> nsjconf.rl_stack]

\* The limit a valid argument stands for.
LimitAskedFor(opt, s) ==
    IF IsMaxOrDef(s)
    THEN IF s[1] \in {"m", "M"} THEN env.rlim[LimitOf(opt).res].max
         ELSE env.rlim[LimitOf(opt).res].cur
    ELSE NumeralValue(s) * LimitOf(opt).mul

\* max, def, or a numeral whose product with the multiplier is in range.
ValidLimit(opt, s) ==
    \/ IsMaxOrDef(s)
    \/ IsNumeral(s) /\ NumeralValue(s) <= ULLONG_MAX \div LimitOf(opt).mul

RLimitJustParsed == args # <<>> /\ Last(args).opt \in RLimitOptNames

\* C5: once a --rlimit_* option with a valid argument has been handled, the
\* process has not ended fatally and the limit of that kind is the hard ceiling
\* for max, the soft ceiling for def, and n times the multiplier of the kind for
\* a numeral n.
C5_LimitIsReference ==
    RLimitJustParsed /\ ValidLimit(Last(args).opt, Last(args).arg) =>
        /\ ~(pc = "exit" /\ status = FatalExitStatus)
        /\ LimitOf(Last(args).opt).val = LimitAskedFor(Last(args).opt, Last(args).arg)

\* A decimal argument that exceeds the range, alone or multiplied (ten digits
\* and more are beyond every range of the model).
Overflows(opt, s) ==
    /\ Len(s) >= 1
    /\ \A i \in 1..Len(s) : isdigit(s[i])
    /\ (Len(s) > 9 \/ DecValue(s) > ULLONG_MAX \div LimitOf(opt).mul)

\* C6: once a --rlimit_* option whose argument overflows has been handled, the
\* process has ended fatally.
C6_OverflowIsFatal ==
    RLimitJustParsed /\ Overflows(Last(args).opt, Last(args).arg) =>
        pc = "exit" /\ status = FatalExitStatus

(***************************************************************************)
(* C11: the root entry from the command line alone.                        *)
(***************************************************************************)
ChrootsGiven == ArgsOf({"c"})
RwGiven == ArgsOf({"rw"}) # <<>>
ReadOnlyUnlessRw == IF RwGiven THEN {} ELSE {"MS_RDONLY"}

\* C11: whenever cmdlineParse succeeds, the root entry (the first of the mount
\* table) is, with S the argument of the last --chroot, a recursive bind mount
\* of S onto "/", and without any --chroot a tmpfs mount without source onto
\* "/"; in both forms it is read-only exactly when no --rw was given, wherever
\* --chroot and --rw stand among the other options.
C11_RootFromLastChrootAndRw ==
    Success =>
        LET root == nsjconf.mountpts[1]
        IN /\ root.dst = S_root
           /\ IF ChrootsGiven # <<>>
              THEN /\ root.src = Last(ChrootsGiven).arg
                   /\ root.fs_type = EmptyStr
                   /\ root.flags = {"MS_BIND", "MS_REC"} \cup ReadOnlyUnlessRw
              ELSE /\ root.src = NULL
                   /\ root.fs_type = S_tmpfs
                   /\ root.flags = ReadOnlyUnlessRw

\* A successful run with two different --chroot values around another option
\* and no --rw: the root entry is the read-only bind mount of the second.
C11_Witness ==
    /\ Success
    /\ Len(args) = 3
    /\ args[1].opt = "c" /\ args[3].opt = "c" /\ args[1].arg # args[3].arg
    /\ args[2].opt \notin {"c", "rw"}
    /\ nsjconf.mountpts[1].src = args[3].arg
    /\ "MS_RDONLY" \in nsjconf.mountpts[1].flags

(***************************************************************************)
(* C12: the numeric check of the identities and the limits.                *)
(***************************************************************************)
\* Decimal digits only, or 0x and hexadecimal digits only, of any length.
DigitsOnly(s) == Len(s) >= 1 /\ \A i \in 1..Len(s) : isdigit(s[i])
HexDigitsOnly(s) ==
    /\ Len(s) >= 3
    /\ s[1] = "0" /\ s[2] = "x"
    /\ \A i \in 3..Len(s) :
          s[i] \in {"0","1","2","3","4","5","6","7","8","9",
                    "a","b","c","d","e","f","A","B","C","D","E","F"}
NumericToken(s) == DigitsOnly(s) \/ HexDigitsOnly(s)

\* A side of --user or --group that missed the name database is a numeric
\* token, and the id is its value.
SideNumericOnMiss(db, str, which, id) ==
    Side(str, which) # NULL /\ Side(str, which) \notin DOMAIN db =>
        /\ NumericToken(Side(str, which))
        /\ (IsNumeral(Side(str, which)) =>
              id = NumeralValue(Side(str, which)) % 2^UidBits)

\* C12: a --rlimit_* argument other than max and def that is not a numeric
\* token ends the process fatally, and one that is a numeral in range does not
\* and sets the limit to its value times the multiplier; cmdlineParse returns
\* true only if every side of --user and --group that is no name of the
\* database is a numeric token, resolved to its value.
C12_NumericIffDecimalOrHex ==
    /\ RLimitJustParsed /\ ~IsMaxOrDef(Last(args).arg) =>
          /\ (~NumericToken(Last(args).arg) =>
                pc = "exit" /\ status = FatalExitStatus)
          /\ (/\ IsNumeral(Last(args).arg)
              /\ NumeralValue(Last(args).arg) <= ULLONG_MAX \div LimitOf(Last(args).opt).mul
              => /\ ~(pc = "exit" /\ status = FatalExitStatus)
                 /\ LimitOf(Last(args).opt).val =
                      NumeralValue(Last(args).arg) * LimitOf(Last(args).opt).mul)
    /\ Success =>
          /\ SideNumericOnMiss(env.pw, user, "in", nsjconf.inside_uid)
          /\ SideNumericOnMiss(env.pw, user, "out", nsjconf.outside_uid)
          /\ SideNumericOnMiss(env.gr, group, "in", nsjconf.inside_gid)
          /\ SideNumericOnMiss(env.gr, group, "out", nsjconf.outside_gid)

(***************************************************************************)
(* C13: cmdlineSplitStrByColon.                                            *)
(***************************************************************************)
Called == dest # 0
\* What the caller reads afterwards: the string at spec, the string at the
\* pointer returned, and whether that pointer is spec itself.
HeadRead == StringAt(spec, 1)
TailRead == StringAt(spec, dest)
TailIsHead == dest = 1
ColonFree(s) == \A i \in 1..Len(s) : s[i] # ":"

\* C13: after the call, for a token without colon the pointer returned is spec
\* itself and the string at spec is the token unchanged; for a token with a
\* colon the pointer returned is not spec, the string at spec has no colon,
\* and the token is that string, one colon, and the string at the pointer
\* returned, which may be empty or equal to the string at spec.  The head, the
\* tail and the aliasing the option cases work with are these.
C13_SplitsAtFirstColon ==
    Called =>
        /\ IF ColonFree(token)
           THEN TailIsHead /\ HeadRead = token
           ELSE /\ ~TailIsHead
                /\ ColonFree(HeadRead)
                /\ token = HeadRead \o <<":">> \o TailRead
        /\ cmdlineSplitStrByColon(token) =
             [head |-> HeadRead, tail |-> TailRead, aliased |-> TailIsHead]

\* The call with "a:a" done: the tail equals the head in content, and the
\* pointer returned is not spec.
C13_Witness ==
    /\ Called
    /\ token = <<"a", ":", "a">>
    /\ HeadRead = <<"a">>
    /\ TailRead = HeadRead
    /\ ~TailIsHead

====
